---------------------------- MODULE Spec2Model ----------------------------
(***************************************************************************)
(* A model of the algorithmic core of Conversai:                           *)
(*   - rag-service/src/services/chunking.rs   chunk_sections               *)
(*   - rag-service/src/services/retrieval.rs  rerank_chunks                *)
(*   - wasm-markdown/src/lib.rs               MarkdownProcessor            *)
(*   - rag-service/src/services/markdown.rs   parse_markdown               *)
(*   - rag-service/src/handlers/ingest.rs     handle_ingest                *)
(*   - rag-service/src/services/embedding.rs  cosine_similarity            *)
(* Each routine is a state machine of its own (SpecChunk, SpecRerank,      *)
(* SpecProc, SpecParse, SpecIngest, SpecCosine); the variables of the      *)
(* routines that are not running stay at their idle values.                *)
(***************************************************************************)
EXTENDS Integers, Sequences, FiniteSets, TLC

VARIABLES
    \* ---- chunk_sections (chunking.rs) ----
    md_sections,     \* the `sections` argument
    max_tokens,      \* the `max_tokens` argument
    overlap_tokens,  \* the `overlap_tokens` argument
    section_no,     \* position of the `for section in sections` loop (1-based)
    tokens,          \* `tokens` of the section being split
    start,           \* `start` of the split loop
    chunks,          \* `chunks`, the result under construction
    cpc,             \* control point: "idle", "for", "while", "done", "panic"
    \* ---- rerank_chunks (retrieval.rs) ----
    rr_chunks,        \* the `chunks` argument
    query_embedding,  \* the `query_embedding` argument
    top_k,            \* the `top_k` argument
    reranked,         \* `reranked`, after the sort
    rr_pos,           \* position of the `for chunk in reranked` loop (1-based)
    seen_docs,        \* `seen_docs`: document_id -> accepted count
    diverse_results,  \* `diverse_results`, the result under construction
    rpc,              \* control point: "idle", "entry", "for", "done"
    \* ---- MarkdownProcessor (wasm-markdown lib.rs) ----
    sections,            \* self.sections
    index,               \* self.index: word -> section indices (0-based)
    max_context_length,  \* self.max_context_length
    call,                \* the call that returned last, with its arguments
    scores,              \* `scores` of the last search, as handed to the rendering
    context,             \* the String the last search / get_full_context returned
    ppc,                 \* control point: "idle", "ready", "returned"
    \* ---- parse_markdown (markdown.rs) ----
    md_events,             \* parser.into_offset_iter(): <<event, range.start>> pairs
    content_len,           \* content.len()
    event_no,              \* position of the `for (event, range)` loop (1-based)
    parsed_sections,       \* `sections`, the result under construction
    current_heading_path,  \* `current_heading_path`
    current_content,       \* `current_content`
    current_level,         \* `current_level`
    start_offset,          \* `start_offset`
    in_code_block,         \* `in_code_block`
    mpc,                   \* control point: "idle", "for", "done"
    \* ---- handle_ingest (handlers/ingest.rs) and the database ----
    documents,   \* the rows of the table `documents`, in insertion order
    db_chunks,   \* the rows of the table `chunks`, in insertion order
    file_data,   \* `file_data` of the request being handled
    filename,    \* `filename` of the request being handled
    existing,    \* `existing`: the row the SELECT found, if any
    doc,         \* `doc`: the row the INSERT returned, if any
    ing_chunks,  \* `chunks`: the chunks of the file
    embeddings,  \* `embeddings`: what get_embeddings returned, if it returned
    chunk_no,    \* position of the `for (chunk, embedding)` loop (1-based)
    response,    \* the response of the request handled last
    ipc,         \* control point, from "ready" to "responded"
    \* ---- cosine_similarity (services/embedding.rs) ----
    vec_a,       \* the `a` argument
    vec_b,       \* the `b` argument
    similarity,  \* the value returned
    kpc          \* control point: "idle", "entry", "done"

chunk_vars == <<md_sections, max_tokens, overlap_tokens, section_no, tokens,
                start, chunks, cpc>>

rerank_vars == <<rr_chunks, query_embedding, top_k, reranked, rr_pos, seen_docs,
                 diverse_results, rpc>>

proc_vars == <<sections, index, max_context_length, call, scores, context, ppc>>

parse_vars == <<md_events, content_len, event_no, parsed_sections,
                current_heading_path, current_content, current_level,
                start_offset, in_code_block, mpc>>

ingest_vars == <<documents, db_chunks, file_data, filename, existing, doc,
                 ing_chunks, embeddings, chunk_no, response, ipc>>

cos_vars == <<vec_a, vec_b, similarity, kpc>>

vars == <<chunk_vars,
          rerank_vars,
          proc_vars,
          parse_vars,
          ingest_vars,
          cos_vars>>

\* The variables of a routine that is not running
ChunkIdle ==
    /\ md_sections = <<>>
    /\ max_tokens = 0
    /\ overlap_tokens = 0
    /\ section_no = 0
    /\ tokens = <<>>
    /\ start = 0
    /\ chunks = <<>>
    /\ cpc = "idle"

RerankIdle ==
    /\ rr_chunks = <<>>
    /\ query_embedding = <<>>
    /\ top_k = 0
    /\ reranked = <<>>
    /\ rr_pos = 0
    /\ seen_docs = <<>>
    /\ diverse_results = <<>>
    /\ rpc = "idle"

ProcIdle ==
    /\ sections = <<>>
    /\ index = <<>>
    /\ max_context_length = 0
    /\ call = [op |-> "none"]
    /\ scores = <<>>
    /\ context = <<>>
    /\ ppc = "idle"

ParseIdle ==
    /\ md_events = <<>>
    /\ content_len = 0
    /\ event_no = 0
    /\ parsed_sections = <<>>
    /\ current_heading_path = <<>>
    /\ current_content = <<>>
    /\ current_level = 0
    /\ start_offset = 0
    /\ in_code_block = FALSE
    /\ mpc = "idle"

IngestIdle ==
    /\ documents = <<>>
    /\ db_chunks = <<>>
    /\ file_data = <<>>
    /\ filename = <<>>
    /\ existing = <<>>
    /\ doc = <<>>
    /\ ing_chunks = <<>>
    /\ embeddings = <<>>
    /\ chunk_no = 0
    /\ response = [status |-> "none"]
    /\ ipc = "idle"

CosIdle ==
    /\ vec_a = <<>>
    /\ vec_b = <<>>
    /\ similarity = 0
    /\ kpc = "idle"

----------------------------------------------------------------------------
(* Generic helpers *)

Min(a, b) == IF a <= b THEN a ELSE b

RECURSIVE SumSeq(_)
SumSeq(s) == IF s = <<>> THEN 0 ELSE Head(s) + SumSeq(Tail(s))

\* All sequences over S of length lo..hi
SeqsOf(S, lo, hi) == UNION {[1..n -> S] : n \in lo..hi}

----------------------------------------------------------------------------
(* usize arithmetic.  The width is scaled down from 64 bits; every length  *)
(* of the model is far below 2^UsizeBits, so the only way to reach the top *)
(* of the range is a wrapped subtraction.                                  *)

UsizeBits == 16

UsizeModulus == 2 ^ UsizeBits

----------------------------------------------------------------------------
(* The tokenizer (tiktoken p50k_base) in miniature: a byte-pair vocabulary *)
(* of three tokens over the alphabet {a, b}: 1 = "a", 2 = "b", 3 = "ab".   *)
(* encode merges every "ab" pair, decode concatenates the tokens' texts.   *)

Alphabet == {"a", "b"}

TokenText(t) == CASE t = 1 -> <<"a">> [] t = 2 -> <<"b">> [] t = 3 -> <<"a", "b">>

encode_with_special_tokens(s) ==
    LET mark(i) == IF s[i] = "b" /\ i > 1 /\ s[i - 1] = "a" THEN 0
                   ELSE IF s[i] = "a" /\ i < Len(s) /\ s[i + 1] = "b" THEN 3
                   ELSE IF s[i] = "a" THEN 1 ELSE 2
    IN  SelectSeq([i \in 1..Len(s) |-> mark(i)], LAMBDA t : t # 0)

RECURSIVE decode(_)
decode(ts) ==
    IF Len(ts) = 0 THEN <<>>
    ELSE IF Len(ts) = 1 THEN TokenText(ts[1])
    ELSE LET h == Len(ts) \div 2
         IN  decode(SubSeq(ts, 1, h)) \o decode(SubSeq(ts, h + 1, Len(ts)))

----------------------------------------------------------------------------
(* chunk_sections *)

\* heading_path.join(" > ")
RECURSIVE join(_)
join(path) ==
    IF path = <<>> THEN ""
    ELSE IF Len(path) = 1 THEN path[1]
    ELSE path[1] \o " > " \o join(Tail(path))

\* Mutant of WholeChunk: the span's end is estimated from the token count, as
\* it is for the windows of a split section.
WholeChunk_estimated_span(section, token_count, idx) ==
    [content  |-> section.content,
     section  |-> join(section.heading_path),
     tokens   |-> token_count,
     span     |-> [start_char |-> section.start_offset,
                   end_char   |-> section.start_offset + (token_count * 3)],
     metadata |-> [heading_path |-> section.heading_path,
                   level        |-> section.level],
     sec      |-> idx]

\* The Chunk pushed for a section that fits (chunking.rs 26-38).  `sec` is a
\* ghost field: the index of the section the chunk was cut from.
WholeChunk(section, token_count, idx) ==
    [content  |-> section.content,
     section  |-> join(section.heading_path),
     tokens   |-> token_count,
     span     |-> [start_char |-> section.start_offset,
                   end_char   |-> section.end_offset],
     metadata |-> [heading_path |-> section.heading_path,
                   level        |-> section.level],
     sec      |-> idx]

\* `end` of the window that starts at s (chunking.rs 43)
WindowEnd(s, toks) == Min(s + max_tokens, Len(toks))

\* The Chunk pushed for the window [s, e) of a split section (chunking.rs 46-75)
WindowChunk(section, toks, s, e, idx) ==
    LET chunk_tokens == SubSeq(toks, s + 1, e)
        char_start == IF s = 0 THEN section.start_offset
                      ELSE section.start_offset + (s * 3)
        char_end   == IF e = Len(toks) THEN section.end_offset
                      ELSE section.start_offset + (e * 3)
    IN  [content  |-> decode(chunk_tokens),
         section  |-> join(section.heading_path),
         tokens   |-> Len(chunk_tokens),
         span     |-> [start_char |-> char_start, end_char |-> char_end],
         metadata |-> [heading_path |-> section.heading_path,
                       level        |-> section.level,
                       chunk_index  |-> Len(chunks)],
         sec      |-> idx]

\* Mutants of NextStart: the wrong argument is subtracted; the overlap is
\* forgotten; the overlap is one token short.
NextStart_wrong_arg(s, e) == e - max_tokens

NextStart_no_overlap(s, e) == e

NextStart_off_by_one(s, e) == e - overlap_tokens + 1

\* `end - overlap_tokens` before any wrapping (chunking.rs 79)
NextStart(s, e) == e - overlap_tokens

\* Bounds of the inputs drawn for chunk_sections
MaxSections == 2

MaxContentLen == 6

MaxTokensArg == 3

\* The loop of a call with overlap_tokens >= max_tokens may never end: the
\* model stops such a call after MaxChunks chunks.  A call that satisfies the
\* precondition emits at most one chunk per token and never gets there.
MaxChunks == MaxSections * MaxContentLen + 2

\* The arguments handle_ingest passes (ingest.rs 85)
IngestMaxTokens == 500

IngestOverlapTokens == 50

\* Section contents: the prefixes of "aabaabaab...", which encode to
\* a, ab, a, ab, ...
PatternContent(n) == [i \in 1..n |-> IF i % 3 = 0 THEN "b" ELSE "a"]

\* Sections laid out one after the other as parse_markdown emits them: the
\* first has no heading, the following ones are under a level-1 heading.
RECURSIVE LayOut(_, _, _)
LayOut(lens, i, offset) ==
    IF i > Len(lens) THEN <<>>
    ELSE <<[content      |-> PatternContent(lens[i]),
            heading_path |-> IF i = 1 THEN <<>> ELSE <<"H">>,
            level        |-> IF i = 1 THEN 0 ELSE 1,
            start_offset |-> offset,
            end_offset   |-> offset + lens[i] + 1]>>
         \o LayOut(lens, i + 1, offset + lens[i] + 1)

\* A single unheaded section of 1200 tokens
ScenarioSections ==
    <<[content      |-> [i \in 1..1200 |-> "a"],
       heading_path |-> <<>>,
       level        |-> 0,
       start_offset |-> 0,
       end_offset   |-> 1200]>>

ChunkArgs ==
    \/ /\ \E lens \in SeqsOf(1..MaxContentLen, 1, MaxSections) :
              md_sections = LayOut(lens, 1, 0)
       /\ max_tokens \in 0..MaxTokensArg
       /\ overlap_tokens \in 0..MaxTokensArg
    \/ /\ md_sections = ScenarioSections
       /\ max_tokens = IngestMaxTokens
       /\ overlap_tokens = IngestOverlapTokens

\* State at the entry of chunk_sections (chunking.rs 16-18)
ChunkEntry ==
    /\ ChunkArgs
    /\ section_no = 1
    /\ tokens = <<>>
    /\ start = 0
    /\ chunks = <<>>
    /\ cpc = "for"

\* chunking.rs 20-38: the next section fits in one chunk
ChunkWhole ==
    /\ cpc = "for"
    /\ section_no <= Len(md_sections)
    /\ LET section == md_sections[section_no]
           toks == encode_with_special_tokens(section.content)
           token_count == Len(toks)
       IN  /\ token_count <= max_tokens
           /\ chunks' = Append(chunks, WholeChunk(section, token_count, section_no))
    /\ section_no' = section_no + 1
    /\ UNCHANGED <<md_sections, max_tokens, overlap_tokens, tokens, start, cpc>>
    /\ UNCHANGED <<rerank_vars, proc_vars, parse_vars, ingest_vars, cos_vars>>

\* chunking.rs 20-24, 39-41: the next section has to be split
SplitBegin ==
    /\ cpc = "for"
    /\ section_no <= Len(md_sections)
    /\ LET toks == encode_with_special_tokens(md_sections[section_no].content)
       IN  /\ Len(toks) > max_tokens
           /\ tokens' = toks
    /\ start' = 0
    /\ cpc' = "while"
    /\ UNCHANGED <<md_sections, max_tokens, overlap_tokens, section_no, chunks>>
    /\ UNCHANGED <<rerank_vars, proc_vars, parse_vars, ingest_vars, cos_vars>>

\* chunking.rs 42-83: one iteration of the split loop.  `end - overlap_tokens`
\* below zero panics in a build with overflow checks and wraps in one without.
SplitStep ==
    /\ cpc = "while"
    /\ start < Len(tokens)
    /\ Len(chunks) < MaxChunks
    /\ LET end == WindowEnd(start, tokens)
           next == NextStart(start, end)
       IN  /\ chunks' = Append(chunks,
                  WindowChunk(md_sections[section_no], tokens, start, end, section_no))
           /\ \/ /\ end < Len(tokens)
                 /\ next >= 0
                 /\ start' = next
                 /\ UNCHANGED <<cpc, section_no>>
              \/ /\ end < Len(tokens)
                 /\ next < 0
                 /\ start' = next + UsizeModulus
                 /\ UNCHANGED <<cpc, section_no>>
              \/ /\ end < Len(tokens)
                 /\ next < 0
                 /\ cpc' = "panic"
                 /\ UNCHANGED <<start, section_no>>
              \/ /\ end >= Len(tokens)
                 /\ cpc' = "for"
                 /\ section_no' = section_no + 1
                 /\ UNCHANGED start
    /\ UNCHANGED <<md_sections, max_tokens, overlap_tokens, tokens>>
    /\ UNCHANGED <<rerank_vars, proc_vars, parse_vars, ingest_vars, cos_vars>>

\* chunking.rs 42: the loop condition fails (only after a wrapped `start`)
SplitExit ==
    /\ cpc = "while"
    /\ start >= Len(tokens)
    /\ cpc' = "for"
    /\ section_no' = section_no + 1
    /\ UNCHANGED <<md_sections, max_tokens, overlap_tokens, tokens, start, chunks>>
    /\ UNCHANGED <<rerank_vars, proc_vars, parse_vars, ingest_vars, cos_vars>>

\* chunking.rs 85-87: all sections done, `chunks` is returned
ChunkReturn ==
    /\ cpc = "for"
    /\ section_no > Len(md_sections)
    /\ cpc' = "done"
    /\ UNCHANGED <<md_sections, max_tokens, overlap_tokens, section_no, tokens,
                   start, chunks>>
    /\ UNCHANGED <<rerank_vars, proc_vars, parse_vars, ingest_vars, cos_vars>>

InitChunk == ChunkEntry /\ RerankIdle /\ ProcIdle /\ ParseIdle /\ IngestIdle /\ CosIdle

NextChunk ==
    \/ ChunkWhole
    \/ SplitBegin
    \/ SplitStep
    \/ SplitExit
    \/ ChunkReturn

SpecChunk == InitChunk /\ [][NextChunk]_vars

\* chunk_sections is sequential code: a step that can be taken is taken.
FairSpecChunk == SpecChunk /\ WF_vars(NextChunk)

----------------------------------------------------------------------------
(* Claims about chunk_sections *)

\* The precondition of the chunker: max_tokens > 0 and 0 <= overlap_tokens < max_tokens
ValidArgs == max_tokens > 0 /\ overlap_tokens < max_tokens

TokensOf(i) == encode_with_special_tokens(md_sections[i].content)

\* The chunks cut from section i, in the order they were pushed
ChunksOf(i) == SelectSeq(chunks, LAMBDA c : c.sec = i)

\* Sections whose processing is over
Processed == {i \in 1..Len(md_sections) : i < section_no}

TokenCounts(cs) == [k \in 1..Len(cs) |-> cs[k].tokens]

\* C1: with max_tokens > 0 and 0 <= overlap_tokens < max_tokens, the window
\* start strictly increases on every iteration of the split loop that goes on
\* to another one, and chunk_sections returns.
C1_Terminates ==
    /\ [][(ValidArgs /\ cpc = "while" /\ cpc' = "while") => start' > start]_vars
    /\ (ValidArgs => <>(cpc = "done"))

\* A call within the precondition returned after cutting a section in 3 or more windows
C1_Witness ==
    /\ ValidArgs
    /\ cpc = "done"
    /\ \E i \in 1..Len(md_sections) : Len(ChunksOf(i)) >= 3

\* C2: with overlap_tokens >= max_tokens the call is rejected before any
\* chunking: no chunk is ever produced and the split loop is never entered.
C2_RejectedEagerly ==
    overlap_tokens >= max_tokens => (chunks = <<>> /\ cpc # "while")

\* C3: a section of at most max_tokens tokens, once processed, has exactly one
\* chunk, with the section's content, token count and (start, end) offsets,
\* whatever overlap_tokens is.
C3_WholeSection ==
    \A i \in Processed :
        Len(TokensOf(i)) <= max_tokens =>
            LET cs == ChunksOf(i)
            IN  /\ Len(cs) = 1
                /\ cs[1].content = md_sections[i].content
                /\ cs[1].tokens = Len(TokensOf(i))
                /\ cs[1].span.start_char = md_sections[i].start_offset
                /\ cs[1].span.end_char = md_sections[i].end_offset

\* A call returned whose second section fits while the first was split
C3_Witness ==
    /\ cpc = "done"
    /\ Len(md_sections) = 2
    /\ Len(TokensOf(1)) > max_tokens
    /\ Len(TokensOf(2)) <= max_tokens
    /\ Len(TokensOf(2)) >= 2

\* C4: within the precondition, the n chunks of a split section of T tokens
\* are the windows of width max_tokens at stride max_tokens - overlap_tokens,
\* the last one cut at T: their token counts add up to T + overlap_tokens*(n-1).
C4_Coverage ==
    ValidArgs =>
        \A i \in Processed :
            LET toks == TokensOf(i)
                T == Len(toks)
                cs == ChunksOf(i)
                n == Len(cs)
                stride == max_tokens - overlap_tokens
            IN  T > max_tokens =>
                    /\ n >= 2
                    /\ SumSeq(TokenCounts(cs)) - overlap_tokens * (n - 1) = T
                    /\ \A k \in 1..n :
                           /\ cs[k].content =
                                  decode(SubSeq(toks, (k - 1) * stride + 1,
                                                Min(T, (k - 1) * stride + max_tokens)))
                           /\ cs[k].tokens = Min(T, (k - 1) * stride + max_tokens)
                                                 - (k - 1) * stride
                           /\ (k < n) = ((k - 1) * stride + max_tokens < T)

\* A split section whose windows overlap has been processed
C4_Witness ==
    /\ ValidArgs
    /\ overlap_tokens > 0
    /\ \E i \in Processed : Len(TokensOf(i)) > max_tokens /\ Len(ChunksOf(i)) >= 3

ScenarioDone ==
    /\ md_sections = ScenarioSections
    /\ max_tokens = IngestMaxTokens
    /\ overlap_tokens = IngestOverlapTokens
    /\ cpc = "done"

\* C5 as stated: one unheaded section of 1200 tokens with max_tokens = 500 and
\* overlap_tokens = 50 yields 3 chunks of 500, 500 and 200 tokens.
C5_Original == ScenarioDone => TokenCounts(chunks) = <<500, 500, 200>>

\* C5 amended: one unheaded section of 1200 tokens with max_tokens = 500 and
\* overlap_tokens = 50 yields 3 chunks of 500, 500 and 300 tokens (the windows
\* 0-500, 450-950 and 900-1200).
C5_Scenario == ScenarioDone => TokenCounts(chunks) = <<500, 500, 300>>

\* The call of the scenario returned
C5_Witness == ScenarioDone /\ Len(chunks) = 3

----------------------------------------------------------------------------
(* cosine_similarity (embedding.rs 57-67) in f32 arithmetic.                *)
(*                                                                          *)
(* The model has a binary floating-point format of the f32 kind, smaller:   *)
(* F32MantissaBits significant bits, gradual underflow, round to nearest    *)
(* with ties to even, overflow to an infinity, a NaN.  A finite value x is  *)
(* held as the integer x * 2^F32FractionBits: 1 is the smallest positive    *)
(* value, One is 1.0.                                                       *)

F32MantissaBits == 3

F32FractionBits == 4

\* The largest values are the F32MantissaBits-bit integers times 2^F32MaxShift
F32MaxShift == 5

One == 2 ^ F32FractionBits

\* The magnitudes of the finite values
Magnitudes ==
    {m * 2 ^ k : m \in 0..(2 ^ F32MantissaBits - 1), k \in 0..F32MaxShift}

\* f32::INFINITY, f32::NEG_INFINITY and f32::NAN: the first power of two past
\* the finite values, its negative, and a value next to it
PosInf == 2 ^ F32MantissaBits * 2 ^ F32MaxShift

NegInf == -PosInf

NaN == PosInf + 1

is_nan(x) == x = NaN

is_infinite(x) == x \in {PosInf, NegInf}

Abs(x) == IF x < 0 THEN -x ELSE x

Sign(x) == IF x < 0 THEN -1 ELSE 1

\* Of the neighbours lo <= hi of an exact result the nearer one: `below` says
\* the result is nearer to lo, `above` that it is nearer to hi; a tie goes to
\* the one with the even last bit, the multiple of twice their distance
Nearest(lo, hi, below, above) ==
    IF lo = hi \/ below THEN lo
    ELSE IF above THEN hi
    ELSE IF lo % (2 * (hi - lo)) = 0 THEN lo ELSE hi

\* The magnitude nearest to num / den (num >= 0, den > 0); PosInf stands for
\* everything from the middle between the largest value and PosInf on
RoundMagnitude(num, den) ==
    IF num >= PosInf * den THEN PosInf
    ELSE LET grid == Magnitudes \cup {PosInf}
             lo == CHOOSE g \in grid :
                       g * den <= num /\ \A h \in grid : h * den <= num => h <= g
             hi == CHOOSE g \in grid :
                       g * den >= num /\ \A h \in grid : h * den >= num => g <= h
         IN  Nearest(lo, hi, 2 * num < (lo + hi) * den, 2 * num > (lo + hi) * den)

\* The value nearest to num / den (den > 0)
Round(num, den) ==
    IF num >= 0 THEN RoundMagnitude(num, den) ELSE -RoundMagnitude(-num, den)

\* x * y
f32_mul(x, y) ==
    IF is_nan(x) \/ is_nan(y) THEN NaN
    ELSE IF is_infinite(x) \/ is_infinite(y)
         THEN IF x = 0 \/ y = 0 THEN NaN ELSE Sign(x) * Sign(y) * PosInf
    ELSE Round(x * y, One)

\* x + y
f32_add(x, y) ==
    IF is_nan(x) \/ is_nan(y) THEN NaN
    ELSE IF is_infinite(x) /\ is_infinite(y) THEN (IF x = y THEN x ELSE NaN)
    ELSE IF is_infinite(x) THEN x
    ELSE IF is_infinite(y) THEN y
    ELSE Round(x + y, 1)

\* x / y
f32_div(x, y) ==
    IF is_nan(x) \/ is_nan(y) THEN NaN
    ELSE IF is_infinite(x)
         THEN IF is_infinite(y) THEN NaN ELSE Sign(x) * Sign(y) * PosInf
    ELSE IF is_infinite(y) THEN 0
    ELSE IF y = 0 THEN (IF x = 0 THEN NaN ELSE Sign(x) * PosInf)
    ELSE Round(x * Sign(y) * One, Abs(y))

\* x.sqrt(): the magnitude nearest to the square root, told by the squares
f32_sqrt(x) ==
    IF is_nan(x) \/ x < 0 THEN NaN
    ELSE IF x = PosInf THEN PosInf
    ELSE LET square == x * One
             lo == CHOOSE g \in Magnitudes :
                       g * g <= square /\ \A h \in Magnitudes : h * h <= square => h <= g
             hi == CHOOSE g \in Magnitudes \cup {PosInf} :
                       g * g >= square
                       /\ \A h \in Magnitudes \cup {PosInf} : h * h >= square => g <= h
         IN  Nearest(lo, hi, 4 * square < (lo + hi) * (lo + hi),
                             4 * square > (lo + hi) * (lo + hi))

\* Iterator::sum::<f32>(): the terms are added one by one, from 0.0
RECURSIVE f32_sum(_)
f32_sum(xs) ==
    IF xs = <<>> THEN 0
    ELSE f32_add(f32_sum(SubSeq(xs, 1, Len(xs) - 1)), xs[Len(xs)])

\* a.iter().zip(b.iter()).map(|(x, y)| x * y).sum()
Dot(a, b) == f32_sum([i \in 1..Min(Len(a), Len(b)) |-> f32_mul(a[i], b[i])])

\* embedding.rs 57-67
cosine_similarity(a, b) ==
    LET dot_product == Dot(a, b)
        norm_a == f32_sqrt(Dot(a, a))
        norm_b == f32_sqrt(Dot(b, b))
    IN  IF norm_a = 0 \/ norm_b = 0 THEN 0
        ELSE f32_div(dot_product, f32_mul(norm_a, norm_b))

\* Most components of a vector
MaxDim == 2

\* The components of the vectors: 0, the smallest positive value and three
\* times it, 1.0, -1.0, 1.5, 5.0 and 8.0
Components == {0, 1, 3, One, -One, 3 * (One \div 2), 5 * One, 8 * One}

Vectors == SeqsOf(Components, 1, MaxDim)

\* The call of cosine_similarity
CosineEntry ==
    /\ vec_a \in Vectors
    /\ vec_b \in Vectors
    /\ similarity = 0
    /\ kpc = "entry"

\* embedding.rs 57-67: the value is computed and returned
CosineReturn ==
    /\ kpc = "entry"
    /\ similarity' = cosine_similarity(vec_a, vec_b)
    /\ kpc' = "done"
    /\ UNCHANGED <<vec_a, vec_b>>
    /\ UNCHANGED <<chunk_vars, rerank_vars, proc_vars, parse_vars, ingest_vars>>

InitCosine ==
    CosineEntry /\ ChunkIdle /\ RerankIdle /\ ProcIdle /\ ParseIdle /\ IngestIdle

NextCosine == CosineReturn

SpecCosine == InitCosine /\ [][NextCosine]_vars

\* The vector has zero magnitude: all its components are 0.0
ZeroVector(v) == \A i \in DOMAIN v : v[i] = 0

\* C16: cosine_similarity returns 0.0 when a or b has zero magnitude, and 1.0
\* when a and b are the same vector and it is not the zero vector.
C16_ZeroAndSelf ==
    kpc = "done" =>
        /\ (ZeroVector(vec_a) \/ ZeroVector(vec_b)) => similarity = 0
        /\ (vec_a = vec_b /\ ~ZeroVector(vec_a)) => similarity = One

----------------------------------------------------------------------------
(* rerank_chunks *)

\* Option<Vec<f32>>: a sequence that is empty (None) or holds the vector (Some)
None == <<>>

Some(v) == <<v>>

\* retrieval.rs 75-83: when the first chunk has an embedding, every chunk that
\* has one is scored again by its cosine similarity to the query
Rescore(cs, query) ==
    IF cs # <<>> /\ cs[1].embedding # None
    THEN [i \in 1..Len(cs) |->
             IF cs[i].embedding # None
             THEN [cs[i] EXCEPT !.score = cosine_similarity(query, cs[i].embedding[1])]
             ELSE cs[i]]
    ELSE cs

\* slice::sort_by is stable: an element goes behind the elements that compare
\* less or equal, here those whose score is greater or equal (retrieval.rs 86)
InsertByScoreDesc(sorted, c) ==
    LET before == Cardinality({j \in 1..Len(sorted) : sorted[j].score >= c.score})
    IN  SubSeq(sorted, 1, before) \o <<c>> \o SubSeq(sorted, before + 1, Len(sorted))

RECURSIVE SortByScoreDesc(_)
SortByScoreDesc(cs) ==
    IF cs = <<>> THEN <<>>
    ELSE InsertByScoreDesc(SortByScoreDesc(SubSeq(cs, 1, Len(cs) - 1)), cs[Len(cs)])

\* seen_docs.entry(document_id).or_insert(0)
SeenCount(seen, d) == IF d \in DOMAIN seen THEN seen[d] ELSE 0

\* The diversity cap of retrieval.rs 94
DiversityCap == 2

\* Bounds of the inputs drawn for rerank_chunks
MaxCandidates == 3

MaxTopK == 3

DocumentIds == {"d1", "d2"}

InputScores == {One, 2 * One}

Embeddings == {None, Some(<<One>>)}

QueryEmbeddings == {<<One>>, <<-One>>}

Candidate(i, d, score, emb) ==
    [id |-> i, document_id |-> d, score |-> score, embedding |-> emb]

\* Candidate lists; `id` is the position in the argument and identifies the chunk
CandidateLists ==
    UNION {{[i \in 1..n |-> Candidate(i, f[i][1], f[i][2], f[i][3])] :
               f \in [1..n -> DocumentIds \X InputScores \X Embeddings]} :
           n \in 0..MaxCandidates}

\* 5 candidates of one document, none with an embedding
ScenarioCandidates ==
    <<Candidate(1, "d1", 3, None), Candidate(2, "d1", 5, None),
      Candidate(3, "d1", 1, None), Candidate(4, "d1", 4, None),
      Candidate(5, "d1", 2, None)>>

RerankArgs ==
    \/ /\ rr_chunks \in CandidateLists
       /\ query_embedding \in QueryEmbeddings
       /\ top_k \in 0..MaxTopK
    \/ /\ rr_chunks = ScenarioCandidates
       /\ query_embedding \in QueryEmbeddings
       /\ top_k = 5

\* State at the entry of rerank_chunks
RerankEntry ==
    /\ RerankArgs
    /\ reranked = <<>>
    /\ rr_pos = 0
    /\ seen_docs = <<>>
    /\ diverse_results = <<>>
    /\ rpc = "entry"

\* retrieval.rs 71-86: copy, score again, sort
RerankSort ==
    /\ rpc = "entry"
    /\ reranked' = SortByScoreDesc(Rescore(rr_chunks, query_embedding))
    /\ rr_pos' = 1
    /\ rpc' = "for"
    /\ UNCHANGED <<rr_chunks, query_embedding, top_k, seen_docs, diverse_results>>
    /\ UNCHANGED <<chunk_vars, proc_vars, parse_vars, ingest_vars, cos_vars>>

\* retrieval.rs 92-101: one iteration of the selection loop; the `break` leaves
\* the loop for the return of line 103
RerankVisit ==
    /\ rpc = "for"
    /\ rr_pos <= Len(reranked)
    /\ LET chunk == reranked[rr_pos]
           count == SeenCount(seen_docs, chunk.document_id)
       IN  \/ /\ count < DiversityCap
              /\ seen_docs' = [d \in DOMAIN seen_docs \cup {chunk.document_id} |->
                                  IF d = chunk.document_id THEN count + 1
                                  ELSE seen_docs[d]]
              /\ diverse_results' = Append(diverse_results, chunk)
              /\ rpc' = IF Len(diverse_results) + 1 >= top_k THEN "done" ELSE "for"
           \/ /\ count >= DiversityCap
              /\ UNCHANGED <<seen_docs, diverse_results, rpc>>
    /\ rr_pos' = rr_pos + 1
    /\ UNCHANGED <<rr_chunks, query_embedding, top_k, reranked>>
    /\ UNCHANGED <<chunk_vars, proc_vars, parse_vars, ingest_vars, cos_vars>>

\* retrieval.rs 92, 103: the list is exhausted, `diverse_results` is returned
RerankReturn ==
    /\ rpc = "for"
    /\ rr_pos > Len(reranked)
    /\ rpc' = "done"
    /\ UNCHANGED <<rr_chunks, query_embedding, top_k, reranked, rr_pos, seen_docs,
                   diverse_results>>
    /\ UNCHANGED <<chunk_vars, proc_vars, parse_vars, ingest_vars, cos_vars>>

InitRerank == RerankEntry /\ ChunkIdle /\ ProcIdle /\ ParseIdle /\ IngestIdle /\ CosIdle

NextRerank ==
    \/ RerankSort
    \/ RerankVisit
    \/ RerankReturn

SpecRerank == InitRerank /\ [][NextRerank]_vars

----------------------------------------------------------------------------
(* Claims about rerank_chunks *)

\* Number of elements of cs that belong to document d
FromDocument(cs, d) == Cardinality({i \in 1..Len(cs) : cs[i].document_id = d})

\* C6: for every candidate list and every top_k >= 0, top_k = 0 included, the
\* result has at most top_k elements and at most 2 of any one document.
C6_Bounded ==
    rpc = "done" =>
        /\ Len(diverse_results) <= top_k
        /\ \A d \in DocumentIds : FromDocument(diverse_results, d) <= 2

\* The greedy selection the claim describes: walking cs in order, a candidate
\* is accepted iff fewer than 2 of its document and fewer than k in all were
\* accepted before it.
RECURSIVE GreedySelect(_, _, _)
GreedySelect(cs, k, acc) ==
    IF cs = <<>> THEN acc
    ELSE IF FromDocument(acc, Head(cs).document_id) < 2 /\ Len(acc) < k
         THEN GreedySelect(Tail(cs), k, Append(acc, Head(cs)))
         ELSE GreedySelect(Tail(cs), k, acc)

\* C7: the result is exactly the greedy selection over the score-sorted list,
\* in the order of that list.
C7_Greedy ==
    rpc = "done" => diverse_results = GreedySelect(reranked, top_k, <<>>)

----------------------------------------------------------------------------
(* Text.  A String is a sequence of one-character strings; the model's     *)
(* characters are ASCII, so a length in bytes (str::len) is the length of  *)
(* the sequence.                                                           *)

UpperCase ==
    <<"A", "B", "C", "D", "E", "F", "G", "H", "I", "J", "K", "L", "M", "N",
      "O", "P", "Q", "R", "S", "T", "U", "V", "W", "X", "Y", "Z">>

LowerCase ==
    <<"a", "b", "c", "d", "e", "f", "g", "h", "i", "j", "k", "l", "m", "n",
      "o", "p", "q", "r", "s", "t", "u", "v", "w", "x", "y", "z">>

DecimalDigits ==
    <<"0", "1", "2", "3", "4", "5", "6", "7", "8", "9">>

Range(f) == {f[i] : i \in DOMAIN f}

\* char::to_lowercase / char::to_uppercase
LowerChar(c) ==
    IF c \in Range(UpperCase)
    THEN LowerCase[CHOOSE i \in DOMAIN UpperCase : UpperCase[i] = c]
    ELSE c

UpperChar(c) ==
    IF c \in Range(LowerCase)
    THEN UpperCase[CHOOSE i \in DOMAIN LowerCase : LowerCase[i] = c]
    ELSE c

\* str::to_lowercase / str::to_uppercase
to_lowercase(s) == [i \in 1..Len(s) |-> LowerChar(s[i])]

to_uppercase(s) == [i \in 1..Len(s) |-> UpperChar(s[i])]

is_alphanumeric(c) == c \in Range(UpperCase) \cup Range(LowerCase) \cup Range(DecimalDigits)

is_whitespace(c) == c \in {" ", "\n", "\t"}

\* str::contains
contains(hay, needle) ==
    \E i \in 1..(Len(hay) - Len(needle) + 1) :
        SubSeq(hay, i, i + Len(needle) - 1) = needle

\* str::trim
trim(s) ==
    LET solid == {i \in 1..Len(s) : ~is_whitespace(s[i])}
    IN  IF solid = {} THEN <<>>
        ELSE SubSeq(s, CHOOSE i \in solid : \A j \in solid : i <= j,
                       CHOOSE i \in solid : \A j \in solid : i >= j)

\* str::split_whitespace: the maximal runs of non-whitespace characters
split_whitespace(s) ==
    LET starts == {i \in 1..Len(s) :
                      ~is_whitespace(s[i]) /\ (i = 1 \/ is_whitespace(s[i - 1]))}
        stop(i) == CHOOSE j \in i..Len(s) :
                       /\ \A k \in i..j : ~is_whitespace(s[k])
                       /\ (j = Len(s) \/ is_whitespace(s[j + 1]))
        ordered == SelectSeq([i \in 1..Len(s) |-> i], LAMBDA i : i \in starts)
    IN  [k \in 1..Len(ordered) |-> SubSeq(s, ordered[k], stop(ordered[k]))]

\* Display of a usize
RECURSIVE usize_to_string(_)
usize_to_string(n) ==
    IF n < 10 THEN <<DecimalDigits[n + 1]>>
    ELSE usize_to_string(n \div 10) \o <<DecimalDigits[(n % 10) + 1]>>

\* Concatenation of a sequence of Strings
RECURSIVE concat(_)
concat(ss) == IF ss = <<>> THEN <<>> ELSE Head(ss) \o concat(Tail(ss))

----------------------------------------------------------------------------
(* MarkdownProcessor: the literals of lib.rs *)

\* "# RELEVANT CONTEXT\n\n" (lib.rs 220)
ContextHeader ==
    <<"#", " ", "R", "E", "L", "E", "V", "A", "N", "T", " ", "C", "O", "N",
      "T", "E", "X", "T", "\n", "\n">>

\* "\n[Context truncated due to length limits]" (lib.rs 234, 269)
TruncationMarker ==
    <<"\n", "[", "C", "o", "n", "t", "e", "x", "t", " ", "t", "r", "u", "n",
      "c", "a", "t", "e", "d", " ", "d", "u", "e", " ", "t", "o", " ", "l",
      "e", "n", "g", "t", "h", " ", "l", "i", "m", "i", "t", "s", "]">>

\* The categories get_full_context renders, in its order (lib.rs 259)
CatPersonal ==
    <<"p", "e", "r", "s", "o", "n", "a", "l">>

CatContext ==
    <<"c", "o", "n", "t", "e", "x", "t">>

CatKnowledge ==
    <<"k", "n", "o", "w", "l", "e", "d", "g", "e">>

FullContextCategories == <<CatPersonal, CatContext, CatKnowledge>>

\* core_sections (lib.rs 207)
CorePersonalIdentity ==
    <<"p", "e", "r", "s", "o", "n", "a", "l", "_", "i", "d", "e", "n", "t",
      "i", "t", "y">>

CorePersonalBackground ==
    <<"p", "e", "r", "s", "o", "n", "a", "l", "_", "b", "a", "c", "k", "g",
      "r", "o", "u", "n", "d">>

core_sections == <<CorePersonalIdentity, CorePersonalBackground>>

\* max_context_length of a new processor (lib.rs 42)
DefaultMaxContextLength == 100000

\* Scores are f32 in the code and always a multiple of 0.5: the model holds
\* twice the score, an integer.  The bonuses and the sentinel of lib.rs:
\* 1.0 per posting (173), 10.0 (179), 5.0 (185), 100.0 (211).
PostingScore == 2

TitleBonus == 20

TagBonus == 10

CoreScore == 200

\* lib.rs 191-195: personal * 2.0, context * 1.5, others unchanged
CategoryWeighted(score, category) ==
    IF category = CatPersonal THEN score * 2
    ELSE IF category = CatContext THEN (score * 3) \div 2
    ELSE score

\* format!("{:.1}", score)
format_score(score) ==
    usize_to_string(score \div 2) \o <<".">> \o (IF score % 2 = 0 THEN <<"0">> ELSE <<"5">>)

\* lib.rs 136-139 and 157-160: lowercase, keep the alphanumeric characters
normalize_word(w) == SelectSeq(to_lowercase(w), is_alphanumeric)

----------------------------------------------------------------------------
(* MarkdownProcessor: add_section and load_markdown *)

\* A variant of IndexPush that keeps one posting per word and section
IndexPush_once(idx, word, section_idx) ==
    [w \in DOMAIN idx \cup {word} |->
        IF w = word
        THEN IF word \in DOMAIN idx
             THEN IF \E k \in 1..Len(idx[word]) : idx[word][k] = section_idx
                  THEN idx[word]
                  ELSE Append(idx[word], section_idx)
             ELSE <<section_idx>>
        ELSE idx[w]]

\* self.index.entry(word).or_insert_with(Vec::new).push(section_idx)
IndexPush(idx, word, section_idx) ==
    [w \in DOMAIN idx \cup {word} |->
        IF w = word
        THEN Append(IF word \in DOMAIN idx THEN idx[word] ELSE <<>>, section_idx)
        ELSE idx[w]]

RECURSIVE IndexWords(_, _, _)
IndexWords(idx, words, section_idx) ==
    IF words = <<>> THEN idx
    ELSE LET word_lower == normalize_word(Head(words))
         IN  IndexWords(IF word_lower # <<>> THEN IndexPush(idx, word_lower, section_idx)
                        ELSE idx,
                        Tail(words), section_idx)

\* add_section (lib.rs 125-149) on the processor p = [sections, index]
add_section(p, section) ==
    LET section_idx == Len(p.sections)
        trimmed == [section EXCEPT !.content = trim(section.content)]
        words == split_whitespace(trimmed.content) \o split_whitespace(trimmed.title)
    IN  [sections |-> Append(p.sections, trimmed),
         index    |-> IndexWords(p.index, words, section_idx)]

\* The events of pulldown_cmark that load_markdown tells apart
StartHeading(level) == [kind |-> "StartHeading", level |-> level]

EndHeading == [kind |-> "EndHeading"]

Text(text) == [kind |-> "Text", text |-> text]

SoftBreak == [kind |-> "SoftBreak"]

\* Any other event, such as the start or the end of a paragraph
OtherEvent == [kind |-> "Other"]

NewSection(id, category) ==
    [id |-> id, title |-> <<>>, content |-> <<>>, tags |-> <<>>, relevance |-> 0,
     category |-> category]

\* lib.rs 101-104: the words of the title longer than 3 bytes, lowercased
TitleTags(text) ==
    LET long == SelectSeq(split_whitespace(text), LAMBDA w : Len(w) > 3)
    IN  [i \in 1..Len(long) |-> to_lowercase(long[i])]

\* lib.rs 66-115: the loop over the events.  st = [p, current_section,
\* in_heading]; heading_level is written and never read, the model omits it.
RECURSIVE LoadEvents(_, _, _)
LoadEvents(events, category, st) ==
    IF events = <<>> THEN st
    ELSE
      LET event == Head(events)
          cur == st.current_section
          next ==
            CASE event.kind = "StartHeading" ->
                   LET p1 == IF cur.content # <<>> THEN add_section(st.p, cur) ELSE st.p
                   IN  [p |-> p1,
                        current_section |->
                            NewSection(category \o <<"_">> \o usize_to_string(Len(p1.sections)),
                                       category),
                        in_heading |-> TRUE]
              [] event.kind = "EndHeading" -> [st EXCEPT !.in_heading = FALSE]
              [] event.kind = "Text" ->
                   IF st.in_heading
                   THEN [st EXCEPT !.current_section.title = event.text,
                                   !.current_section.tags = TitleTags(event.text)]
                   ELSE [st EXCEPT !.current_section.content = cur.content \o event.text \o <<" ">>]
              [] event.kind \in {"SoftBreak", "HardBreak"} ->
                   [st EXCEPT !.current_section.content = cur.content \o <<"\n">>]
              [] OTHER -> st
      IN  LoadEvents(Tail(events), category, next)

\* load_markdown (lib.rs 52-123) on the processor p; `events` are the events
\* Parser::new(content) yields
load_markdown(p, events, category) ==
    LET st == LoadEvents(events, category,
                         [p |-> p, current_section |-> NewSection(<<>>, category),
                          in_heading |-> FALSE])
        cur == st.current_section
    IN  IF cur.content # <<>> \/ cur.title # <<>> THEN add_section(st.p, cur) ELSE st.p

----------------------------------------------------------------------------
(* MarkdownProcessor: search *)

\* lib.rs 156-162
query_words(query) ==
    LET ws == split_whitespace(query)
    IN  SelectSeq([i \in 1..Len(ws) |-> normalize_word(ws[i])], LAMBDA w : w # <<>>)

\* lib.rs 169-175: the postings of `word` that point to section idx
Frequency(p, word, idx) ==
    IF word \in DOMAIN p.index
    THEN Cardinality({k \in 1..Len(p.index[word]) : p.index[word][k] = idx})
    ELSE 0

\* A variant of WordScore that counts a word once per section instead of once
\* per posting
WordScore_presence_only(p, idx, word) ==
    LET section == p.sections[idx + 1]
    IN  PostingScore * (IF Frequency(p, word, idx) > 0 THEN 1 ELSE 0)
        + (IF contains(to_lowercase(section.title), word) THEN TitleBonus ELSE 0)
        + TagBonus * Cardinality({t \in 1..Len(section.tags) :
                                     contains(section.tags[t], word)})

\* lib.rs 168-187: what one query word adds to the score of a section
WordScore(p, idx, word) ==
    LET section == p.sections[idx + 1]
    IN  PostingScore * Frequency(p, word, idx)
        + (IF contains(to_lowercase(section.title), word) THEN TitleBonus ELSE 0)
        + TagBonus * Cardinality({t \in 1..Len(section.tags) :
                                     contains(section.tags[t], word)})

\* lib.rs 165-195
SectionScore(p, idx, words) ==
    CategoryWeighted(SumSeq([k \in 1..Len(words) |-> WordScore(p, idx, words[k])]),
                     p.sections[idx + 1].category)

\* lib.rs 164-200: the sections with a score > 0, in index order
ScoredSections(p, words) ==
    SelectSeq([i \in 1..Len(p.sections) |->
                  [idx |-> i - 1, score |-> SectionScore(p, i - 1, words)]],
              LAMBDA e : e.score > 0)

\* Vec::truncate
truncate(v, len) == SubSeq(v, 1, Min(Len(v), len))

\* lib.rs 208-214: the first section whose id contains the core id goes to the
\* front with the score 100.0, unless the list has it
RECURSIVE InsertCore(_, _, _)
InsertCore(scs, p, core_ids) ==
    IF core_ids = <<>> THEN scs
    ELSE
      LET core_id == Head(core_ids)
          found == {i \in 1..Len(p.sections) : contains(p.sections[i].id, core_id)}
          idx == (CHOOSE i \in found : \A j \in found : i <= j) - 1
          inserted ==
            IF found # {} /\ ~\E k \in 1..Len(scs) : scs[k].idx = idx
            THEN <<[idx |-> idx, score |-> CoreScore]>> \o scs
            ELSE scs
      IN  InsertCore(inserted, p, Tail(core_ids))

\* lib.rs 154-204: `scores` after the sort and the truncation
OrganicScores(p, query, max_results) ==
    truncate(SortByScoreDesc(ScoredSections(p, query_words(query))), max_results)

\* lib.rs 154-214: `scores` as the rendering loop gets it
RankedScores(p, query, max_results) ==
    InsertCore(OrganicScores(p, query, max_results), p, core_sections)

HeadingPrefix ==
    <<"#", "#", " ">>

RelevanceOpen ==
    <<" ", "(", "R", "e", "l", "e", "v", "a", "n", "c", "e", ":", " ">>

RelevanceClose ==
    <<")", "\n">>

\* format!("## {} (Relevance: {:.1})\n{}\n\n", title, score, content) (lib.rs 225-230)
RankedSectionText(section, score) ==
    HeadingPrefix \o section.title \o RelevanceOpen \o format_score(score)
        \o RelevanceClose \o section.content \o <<"\n", "\n">>

\* Mutant of ExceedsBudget: a block that fills the budget exactly is refused
ExceedsBudget_or_fills(total_length, section_text) ==
    total_length + Len(section_text) >= max_context_length

\* lib.rs 233 and 268: total_length + section_text.len() > self.max_context_length
ExceedsBudget(total_length, section_text) ==
    total_length + Len(section_text) > max_context_length

\* lib.rs 223-240: the rendering loop of search
RECURSIVE RenderRanked(_, _, _, _)
RenderRanked(scs, p, ctx, total_length) ==
    IF scs = <<>> THEN ctx
    ELSE LET section_text == RankedSectionText(p.sections[Head(scs).idx + 1], Head(scs).score)
         IN  IF ExceedsBudget(total_length, section_text)
             THEN ctx \o TruncationMarker
             ELSE RenderRanked(Tail(scs), p, ctx \o section_text,
                               total_length + Len(section_text))

\* search (lib.rs 151-244): the String returned for the list `scs`
search_context(scs, p) == RenderRanked(scs, p, ContextHeader, 0)

----------------------------------------------------------------------------
(* MarkdownProcessor: get_full_context *)

CategoryHeaderOpen ==
    <<"\n", "#", " ">>

CategoryHeaderClose ==
    <<" ", "I", "N", "F", "O", "R", "M", "A", "T", "I", "O", "N", "\n", "\n">>

\* format!("\n# {} INFORMATION\n\n", cat.to_uppercase()) (lib.rs 263)
CategoryHeader(cat) == CategoryHeaderOpen \o to_uppercase(cat) \o CategoryHeaderClose

\* format!("## {}\n{}\n\n", section.title, section.content) (lib.rs 266)
FullSectionText(section) ==
    HeadingPrefix \o section.title \o <<"\n">> \o section.content \o <<"\n", "\n">>

\* lib.rs 251-256: the sections of a category, in the order of self.sections
by_category(p, cat) == SelectSeq(p.sections, LAMBDA sec : sec.category = cat)

\* lib.rs 265-275: the loop over the sections of one category.
\* st = [context, total_length, returned]
RECURSIVE FullSections(_, _)
FullSections(secs, st) ==
    IF secs = <<>> THEN st
    ELSE LET section_text == FullSectionText(Head(secs))
         IN  IF ExceedsBudget(st.total_length, section_text)
             THEN [st EXCEPT !.context = st.context \o TruncationMarker,
                             !.returned = TRUE]
             ELSE FullSections(Tail(secs),
                               [st EXCEPT !.context = st.context \o section_text,
                                          !.total_length = st.total_length + Len(section_text)])

\* lib.rs 261-277: the loop over the categories
RECURSIVE FullCategories(_, _, _)
FullCategories(cats, p, st) ==
    IF cats = <<>> \/ st.returned THEN st
    ELSE LET group == by_category(p, Head(cats))
         IN  FullCategories(Tail(cats), p,
                 IF group = <<>> THEN st
                 ELSE FullSections(group,
                          [st EXCEPT !.context = st.context \o CategoryHeader(Head(cats))]))

\* get_full_context (lib.rs 246-280): the String returned
full_context(p) ==
    FullCategories(FullContextCategories, p,
                   [context |-> <<>>, total_length |-> 0, returned |-> FALSE]).context

----------------------------------------------------------------------------
(* MarkdownProcessor: export_sections and import_sections                   *)
(*                                                                          *)
(* serde_json is modelled on JSON values: a String becomes a JSON string, a *)
(* Vec an array, a struct an object with one member per field, an f32 a     *)
(* number when it is finite and null when it is not.  Reading back checks   *)
(* the shape: an array of objects that have every field with a value of     *)
(* the field's type (members that are no field are ignored).                *)

JString(s) == [json |-> "string", value |-> s]

JNumber(n) == [json |-> "number", value |-> n]

JNull == [json |-> "null"]

JArray(items) == [json |-> "array", items |-> items]

JObject(members) == [json |-> "object", members |-> members]

\* A text that is no JSON document
NotJson == [json |-> "invalid"]

\* The model's f32 values are integers, all finite
is_finite(x) == x \in Int

\* Serialize for MarkdownSection (derived, lib.rs 17-25)
SerializeSection(section) ==
    JObject([id        |-> JString(section.id),
             title     |-> JString(section.title),
             content   |-> JString(section.content),
             tags      |-> JArray([i \in 1..Len(section.tags) |-> JString(section.tags[i])]),
             relevance |-> IF is_finite(section.relevance)
                           THEN JNumber(section.relevance) ELSE JNull,
             category  |-> JString(section.category)])

\* serde_json::to_string(&self.sections)
to_string(secs) == JArray([i \in 1..Len(secs) |-> SerializeSection(secs[i])])

\* export_sections (lib.rs 296-304); serializing these types cannot fail
export_sections(p) == to_string(p.sections)

SectionFields == {"id", "title", "content", "tags", "relevance", "category"}

\* Deserialize for MarkdownSection (derived, lib.rs 17-25): can v be read?
IsSectionJson(v) ==
    /\ v.json = "object"
    /\ SectionFields \subseteq DOMAIN v.members
    /\ \A f \in {"id", "title", "content", "category"} : v.members[f].json = "string"
    /\ v.members.tags.json = "array"
    /\ \A i \in DOMAIN v.members.tags.items : v.members.tags.items[i].json = "string"
    /\ v.members.relevance.json = "number"

DeserializeSection(v) ==
    [id        |-> v.members.id.value,
     title     |-> v.members.title.value,
     content   |-> v.members.content.value,
     tags      |-> [i \in DOMAIN v.members.tags.items |-> v.members.tags.items[i].value],
     relevance |-> v.members.relevance.value,
     category  |-> v.members.category.value]

\* serde_json::from_str::<Vec<MarkdownSection>>(json): Ok(sections) or Err
from_str(json) ==
    IF json.json = "array" /\ \A i \in DOMAIN json.items : IsSectionJson(json.items[i])
    THEN [ok |-> TRUE,
          sections |-> [i \in DOMAIN json.items |-> DeserializeSection(json.items[i])]]
    ELSE [ok |-> FALSE]

\* lib.rs 311-313
RECURSIVE AddSections(_, _)
AddSections(p, secs) ==
    IF secs = <<>> THEN p ELSE AddSections(add_section(p, Head(secs)), Tail(secs))

\* clear (lib.rs 46-50)
clear(p) == [sections |-> <<>>, index |-> <<>>]

\* A variant of import_sections that does not clear the processor first
import_sections_appending(p, json) ==
    LET parsed == from_str(json)
    IN  IF parsed.ok THEN AddSections(p, parsed.sections) ELSE p

\* import_sections (lib.rs 307-320)
import_sections(p, json) ==
    LET parsed == from_str(json)
    IN  IF parsed.ok THEN AddSections(clear(p), parsed.sections) ELSE p

----------------------------------------------------------------------------
(* MarkdownProcessor: the calls of the host *)

\* Bounds: sections held by the processor, max_results of a search
MaxStored == 2

MaxResults == 2

\* The events of the documents "# Me\nbob", "# Roll\nroll roll" and
\* "Up-to\nyou" (a paragraph of two lines, no heading)
DocMe ==
    <<StartHeading(1), Text(<<"M", "e">>), EndHeading,
      OtherEvent, Text(<<"b", "o", "b">>), OtherEvent>>

DocRoll ==
    <<StartHeading(1), Text(<<"R", "o", "l", "l">>), EndHeading,
      OtherEvent, Text(<<"r", "o", "l", "l", " ", "r", "o", "l", "l">>), OtherEvent>>

DocNotes ==
    <<OtherEvent, Text(<<"U", "p", "-", "t", "o">>), SoftBreak, Text(<<"y", "o", "u">>), OtherEvent>>

Documents == {DocMe, DocRoll, DocNotes}

Categories == {CatPersonal, CatContext, CatKnowledge, CorePersonalIdentity}

\* The queries "roll", "Roll roll, ROLL!" and "bob you"
Queries ==
    {<<"r", "o", "l", "l">>,
     <<"R", "o", "l", "l", " ", "r", "o", "l", "l", ",", " ", "R", "O", "L", "L", "!">>,
     <<"b", "o", "b", " ", "y", "o", "u">>}

ContextLengths == {0, 30, 70, DefaultMaxContextLength}

NoCall == [op |-> "none"]

\* The processor as the record the operators above work on
Processor == [sections |-> sections, index |-> index]

\* MarkdownProcessor::new (lib.rs 37-44)
ProcNew ==
    /\ sections = <<>>
    /\ index = <<>>
    /\ max_context_length = DefaultMaxContextLength
    /\ call = NoCall
    /\ scores = <<>>
    /\ context = <<>>
    /\ ppc = "ready"

\* clear (lib.rs 46-50)
Clear ==
    /\ ppc = "ready"
    /\ sections' = <<>>
    /\ index' = <<>>
    /\ UNCHANGED <<max_context_length, call, scores, context, ppc>>
    /\ UNCHANGED <<chunk_vars, rerank_vars, parse_vars, ingest_vars, cos_vars>>

\* load_markdown (lib.rs 52-123)
LoadMarkdown ==
    /\ ppc = "ready"
    /\ \E events \in Documents, category \in Categories :
           LET p == load_markdown(Processor, events, category)
           IN  /\ Len(p.sections) <= MaxStored
               /\ sections' = p.sections
               /\ index' = p.index
    /\ UNCHANGED <<max_context_length, call, scores, context, ppc>>
    /\ UNCHANGED <<chunk_vars, rerank_vars, parse_vars, ingest_vars, cos_vars>>

\* set_max_context_length (lib.rs 282-285)
SetMaxContextLength ==
    /\ ppc = "ready"
    /\ \E length \in ContextLengths : max_context_length' = length
    /\ UNCHANGED <<sections, index, call, scores, context, ppc>>
    /\ UNCHANGED <<chunk_vars, rerank_vars, parse_vars, ingest_vars, cos_vars>>

\* search (lib.rs 151-244)
Search ==
    /\ ppc = "ready"
    /\ \E query \in Queries, max_results \in 0..MaxResults :
           /\ call' = [op |-> "search", query |-> query, max_results |-> max_results]
           /\ scores' = RankedScores(Processor, query, max_results)
           /\ context' = search_context(RankedScores(Processor, query, max_results),
                                        Processor)
    /\ ppc' = "returned"
    /\ UNCHANGED <<sections, index, max_context_length>>
    /\ UNCHANGED <<chunk_vars, rerank_vars, parse_vars, ingest_vars, cos_vars>>

\* get_full_context (lib.rs 246-280)
GetFullContext ==
    /\ ppc = "ready"
    /\ call' = [op |-> "get_full_context"]
    /\ context' = full_context(Processor)
    /\ ppc' = "returned"
    /\ UNCHANGED <<sections, index, max_context_length, scores>>
    /\ UNCHANGED <<chunk_vars, rerank_vars, parse_vars, ingest_vars, cos_vars>>

\* The processors whose export is imported: those made by at most two of
\* these loads into a new processor
ExporterLoads ==
    {<<DocMe, CatPersonal>>, <<DocRoll, CatKnowledge>>, <<DocNotes, CatPersonal>>}

RECURSIVE Loaded(_, _)
Loaded(p, loads) ==
    IF loads = <<>> THEN p
    ELSE Loaded(load_markdown(p, Head(loads)[1], Head(loads)[2]), Tail(loads))

Exporters == {Loaded(clear(<<>>), loads) : loads \in SeqsOf(ExporterLoads, 0, 2)}

\* A JSON document the host wrote itself: one section, its content not trimmed
HandWritten ==
    JArray(<<JObject([id        |-> JString(<<"m", "y">>),
                      title     |-> JString(<<"M", "e", " ", "t", "o", "o">>),
                      content   |-> JString(<<" ", "B", "o", "b", " ", " ", "b", "o", "b", "\n">>),
                      tags      |-> JArray(<<JString(<<"b", "o", "b">>)>>),
                      relevance |-> JNumber(1),
                      category  |-> JString(CatPersonal),
                      note      |-> JString(<<"x">>)])>>)

\* A JSON document of another shape: a section without its tags
WrongShape ==
    JArray(<<JObject([id |-> JString(<<"m", "y">>), title |-> JString(<<>>),
                      content |-> JString(<<"b", "o", "b">>),
                      relevance |-> JNumber(0), category |-> JString(CatPersonal)])>>)

\* The `json` arguments of import_sections; `exporter` is the processor that
\* exported the document, if one did
ImportInputs ==
    {[json |-> export_sections(p), exporter |-> Some(p)] : p \in Exporters}
    \cup {[json |-> j, exporter |-> None] : j \in {HandWritten, WrongShape, NotJson}}

\* export_sections (lib.rs 296-304)
ExportSections ==
    /\ ppc = "ready"
    /\ call' = [op |-> "export_sections", json |-> export_sections(Processor)]
    /\ ppc' = "returned"
    /\ UNCHANGED <<sections, index, max_context_length, scores, context>>
    /\ UNCHANGED <<chunk_vars, rerank_vars, parse_vars, ingest_vars, cos_vars>>

\* import_sections (lib.rs 307-320); `held` is the number of sections the
\* processor held when it was called
ImportSections ==
    /\ ppc = "ready"
    /\ \E input \in ImportInputs :
           LET p == import_sections(Processor, input.json)
           IN  /\ Len(p.sections) <= MaxStored
               /\ sections' = p.sections
               /\ index' = p.index
               /\ call' = [op |-> "import_sections", json |-> input.json,
                           exporter |-> input.exporter, held |-> Len(sections)]
    /\ ppc' = "returned"
    /\ UNCHANGED <<max_context_length, scores, context>>
    /\ UNCHANGED <<chunk_vars, rerank_vars, parse_vars, ingest_vars, cos_vars>>

\* The call has returned to the host; the processor is ready for the next call
Return ==
    /\ ppc = "returned"
    /\ call' = NoCall
    /\ scores' = <<>>
    /\ context' = <<>>
    /\ ppc' = "ready"
    /\ UNCHANGED <<sections, index, max_context_length>>
    /\ UNCHANGED <<chunk_vars, rerank_vars, parse_vars, ingest_vars, cos_vars>>

InitProc == ProcNew /\ ChunkIdle /\ RerankIdle /\ ParseIdle /\ IngestIdle /\ CosIdle

NextProc ==
    \/ Clear
    \/ LoadMarkdown
    \/ SetMaxContextLength
    \/ Search
    \/ GetFullContext
    \/ ExportSections
    \/ ImportSections
    \/ Return

SpecProc == InitProc /\ [][NextProc]_vars

----------------------------------------------------------------------------
(* Claims about the context search and get_full_context return *)

\* C8: in both rendering modes the returned text, headers included, is never
\* longer than max_context_length plus the length of the truncation marker.
C8_Bounded ==
    ppc = "returned" => Len(context) <= max_context_length + Len(TruncationMarker)

\* What the two calls emit, in order: `counted` tells the blocks, whose length
\* the running length adds up, from the headers, which it leaves out.
Block(text) == [text |-> text, counted |-> TRUE]

Heading(text) == [text |-> text, counted |-> FALSE]

SearchItems ==
    <<Heading(ContextHeader)>>
        \o [k \in 1..Len(scores) |->
               Block(RankedSectionText(sections[scores[k].idx + 1], scores[k].score))]

RECURSIVE CategoryItems(_)
CategoryItems(cats) ==
    IF cats = <<>> THEN <<>>
    ELSE LET group == SelectSeq(sections, LAMBDA sec : sec.category = Head(cats))
         IN  (IF group = <<>> THEN <<>>
              ELSE <<Heading(CategoryHeader(Head(cats)))>>
                       \o [k \in 1..Len(group) |-> Block(FullSectionText(group[k]))])
             \o CategoryItems(Tail(cats))

FullItems == CategoryItems(FullContextCategories)

\* The running length before item k: the lengths of the blocks before it
RunningLength(items, k) ==
    SumSeq([j \in 1..(k - 1) |-> IF items[j].counted THEN Len(items[j].text) ELSE 0])

\* The blocks that would push the running length over max_context_length
Overflowing(items) ==
    {k \in 1..Len(items) :
        /\ items[k].counted
        /\ RunningLength(items, k) + Len(items[k].text) > max_context_length}

\* Everything before the first overflowing block, whole, then the marker once;
\* everything and no marker when no block overflows
Assembled(items) ==
    LET texts == [k \in 1..Len(items) |-> items[k].text]
        over == Overflowing(items)
        first == CHOOSE k \in over : \A j \in over : k <= j
    IN  IF over = {} THEN concat(texts)
        ELSE concat(SubSeq(texts, 1, first - 1)) \o TruncationMarker

\* C9: the budget (the running length of the blocks appended so far) is checked
\* before each block is appended: the returned text is the header(s) and the
\* whole blocks before the first block that would push the running length over
\* max_context_length, then one truncation marker and nothing after it; when
\* every block fits it is all the blocks and no marker.
C9_CheckBeforeAppend ==
    ppc = "returned" =>
        /\ call.op = "search" => context = Assembled(SearchItems)
        /\ call.op = "get_full_context" => context = Assembled(FullItems)

\* A search was truncated after a block that fills the budget exactly
C9_Witness ==
    /\ ppc = "returned"
    /\ call.op = "search"
    /\ Len(scores) = 2
    /\ Len(SearchItems[2].text) = max_context_length
    /\ Overflowing(SearchItems) = {3}

\* The sections whose id matches (contains) a forced-priority id (1-based positions)
CoreSectionPositions ==
    {i \in 1..Len(sections) :
        \E c \in 1..Len(core_sections) : contains(sections[i].id, core_sections[c])}

\* C10: after a search, every core section of the store that the organic list
\* (sorted and cut to max_results) does not hold is in the list handed to the
\* rendering, with nothing but forced entries before it, and with a score that
\* exceeds every computed score in the list.
C10_ForcedPriority ==
    (ppc = "returned" /\ call.op = "search") =>
        LET organic == OrganicScores(Processor, call.query, call.max_results)
        IN  \A i \in CoreSectionPositions :
                (~\E k \in 1..Len(organic) : organic[k].idx = i - 1) =>
                    \E k \in 1..Len(scores) :
                        /\ scores[k].idx = i - 1
                        /\ \A j \in 1..(k - 1) : scores[j].idx + 1 \in CoreSectionPositions
                        /\ \A e \in 1..Len(organic) : scores[k].score > organic[e].score

\* A ranked list is in descending score order, and entries with equal scores
\* are in discovery order (their position in the store / in the input)
DescendingStable(list, Score(_), Discovered(_)) ==
    \A i, j \in 1..Len(list) :
        i < j => \/ Score(list[i]) > Score(list[j])
                 \/ Score(list[i]) = Score(list[j])
                    /\ Discovered(list[i]) < Discovered(list[j])

\* C11: the list of candidates that search hands to its rendering loop (after
\* the core sections were put in) is in descending score order, candidates
\* with equal scores in section index order.
C11_RankedOrder ==
    (ppc = "returned" /\ call.op = "search") =>
        DescendingStable(scores, LAMBDA e : e.score, LAMBDA e : e.idx)

\* The postings of `term` that point to the section at position i (0-based)
PostingsTo(term, i) ==
    IF term \in DOMAIN index
    THEN Cardinality({k \in DOMAIN index[term] : index[term][k] = i})
    ELSE 0

\* What the stated formula gives for one query term and the section at i
TermLexical(term, i) ==
    PostingsTo(term, i)
    + (IF contains(to_lowercase(sections[i + 1].title), term) THEN 10 ELSE 0)
    + 5 * Cardinality({t \in DOMAIN sections[i + 1].tags :
                          contains(sections[i + 1].tags[t], term)})

\* The stated lexical score of the section at i: the sum over the query terms
LexicalScore(terms, i) == SumSeq([k \in 1..Len(terms) |-> TermLexical(terms[k], i)])

\* Twice the weighted score (the unit of `scores`): the weight is 2.0 for
\* personal, 1.5 for context and 1.0 for every other category
WeightedTwice(terms, i) ==
    LexicalScore(terms, i) * (CASE sections[i + 1].category = CatPersonal -> 4
                                [] sections[i + 1].category = CatContext -> 3
                                [] OTHER -> 2)

\* C12: after a search, every entry of the list that the scoring put there has
\* the stated score (the sum over the normalized query terms of postings, +10
\* for a title that contains the term, +5 per tag that contains it, times the
\* category weight) and that score is > 0; the only other entries are the core
\* sections put in with the fixed score; and when max_results does not cut the
\* list, every section with a stated score > 0 is in it.
C12_LexicalScore ==
    (ppc = "returned" /\ call.op = "search") =>
        LET terms == query_words(call.query)
        IN  /\ \A k \in 1..Len(scores) :
                   \/ /\ scores[k].score = WeightedTwice(terms, scores[k].idx)
                      /\ scores[k].score > 0
                   \/ /\ scores[k].score = CoreScore
                      /\ scores[k].idx + 1 \in CoreSectionPositions
            /\ call.max_results >= Len(sections) =>
                   \A i \in 0..(Len(sections) - 1) :
                       WeightedTwice(terms, i) > 0 =>
                           \E k \in 1..Len(scores) :
                               /\ scores[k].idx = i
                               /\ scores[k].score = WeightedTwice(terms, i)

\* Three query terms, a section with three postings of the term, the term in
\* its title and in a tag, weighted as personal (3 * (3 + 10 + 5) * 2.0), and
\* a second section that has no match and is no candidate
C12_Witness ==
    /\ ppc = "returned" /\ call.op = "search"
    /\ call.max_results = 2
    /\ Len(query_words(call.query)) = 3
    /\ Len(sections) = 2
    /\ Len(scores) = 1
    /\ scores[1].score = 216
    /\ PostingsTo(query_words(call.query)[1], scores[1].idx) = 3

----------------------------------------------------------------------------
(* parse_markdown (markdown.rs 13-93)                                       *)
(*                                                                          *)
(* The input is the sequence of (event, range) pairs that the pulldown_cmark *)
(* parser gives for the content; of a range the code reads only the start.  *)

\* A backquote cannot be written in a TLA+ string: the model writes ~ for it
Backquote == "~"

\* Event::Code
Code(code) == [kind |-> "Code", text |-> code]

\* Event::Start(Tag::CodeBlock(_)) and Event::End(Tag::CodeBlock(_))
StartCodeBlock == [kind |-> "StartCodeBlock"]

EndCodeBlock == [kind |-> "EndCodeBlock"]

\* Most blocks of a document, and most heading levels
MaxBlocks == 3

MaxLevel == 3

\* The events and the byte length of a heading of `level` with `runs` text
\* runs: "#\n\n", "# h\n\n", "# h*h*\n\n" (with more # for a deeper level)
HeadingBlock(level, runs) ==
    [events |-> <<StartHeading(level)>>
                \o (CASE runs = 0 -> <<>>
                      [] runs = 1 -> <<Text(<<"h">>)>>
                      [] runs = 2 -> <<Text(<<"h">>), OtherEvent, Text(<<"h">>), OtherEvent>>)
                \o <<EndHeading>>,
     len |-> level + (CASE runs = 0 -> 2 [] runs = 1 -> 4 [] runs = 2 -> 7)]

\* The paragraph "t\n\n"
ParagraphBlock ==
    [events |-> <<OtherEvent, Text(<<"t">>), OtherEvent>>, len |-> 3]

\* The paragraph of a text, a soft break and a code span (7 bytes with the
\* blank line behind it)
CodeSpanBlock ==
    [events |-> <<OtherEvent, Text(<<"t">>), SoftBreak, Code(<<"c">>), OtherEvent>>,
     len |-> 7]

\* A fenced code block with the line "t" (11 bytes with the blank line)
FencedBlock ==
    [events |-> <<StartCodeBlock, Text(<<"t", "\n">>), EndCodeBlock>>, len |-> 11]

Blocks ==
    {HeadingBlock(level, runs) : level \in 1..MaxLevel, runs \in 0..2}
    \cup {ParagraphBlock, CodeSpanBlock, FencedBlock}

\* into_offset_iter() over a document made of the blocks bs, the first at
\* byte `offset`: every event with the start of its block
RECURSIVE OffsetIter(_, _)
OffsetIter(bs, offset) ==
    IF bs = <<>> THEN <<>>
    ELSE [i \in 1..Len(Head(bs).events) |->
             [event |-> Head(bs).events[i], range_start |-> offset]]
         \o OffsetIter(Tail(bs), offset + Head(bs).len)

\* MarkdownSection (markdown.rs 5-11)
MarkdownSection(content, heading_path, level, from, to) ==
    [content |-> content, heading_path |-> heading_path, level |-> level,
     start_offset |-> from, end_offset |-> to]

\* markdown.rs 26-34 and 82-90: the section is saved when its content is not blank
SaveSection(to) ==
    IF trim(current_content) # <<>>
    THEN Append(parsed_sections,
                MarkdownSection(current_content, current_heading_path,
                                current_level, start_offset, to))
    ELSE parsed_sections

\* The event the loop is at
ThisEvent == md_events[event_no].event

AtEvent(kinds) ==
    /\ mpc = "for"
    /\ event_no <= Len(md_events)
    /\ ThisEvent.kind \in kinds
    /\ event_no' = event_no + 1
    /\ UNCHANGED <<md_events, content_len, mpc>>
    /\ UNCHANGED <<chunk_vars, rerank_vars, proc_vars, ingest_vars, cos_vars>>

\* markdown.rs 13-20
ParseEntry ==
    /\ \E bs \in SeqsOf(Blocks, 0, MaxBlocks) :
           /\ md_events = OffsetIter(bs, 0)
           /\ content_len = SumSeq([i \in 1..Len(bs) |-> bs[i].len])
    /\ event_no = 1
    /\ parsed_sections = <<>>
    /\ current_heading_path = <<>>
    /\ current_content = <<>>
    /\ current_level = 0
    /\ start_offset = 0
    /\ in_code_block = FALSE
    /\ mpc = "for"

\* markdown.rs 24-44: Event::Start(Tag::Heading(level, _, _))
HeadingStart ==
    /\ AtEvent({"StartHeading"})
    /\ parsed_sections' = SaveSection(md_events[event_no].range_start)
    /\ current_content' = <<>>
    /\ current_level' = ThisEvent.level
    /\ start_offset' = md_events[event_no].range_start
    /\ current_heading_path' =
           SubSeq(current_heading_path, 1,
                  Min(Len(current_heading_path), ThisEvent.level - 1))
    /\ UNCHANGED in_code_block

\* markdown.rs 45-47: Event::End(Tag::Heading(..))
HeadingEnd ==
    /\ AtEvent({"EndHeading"})
    /\ UNCHANGED <<parsed_sections, current_heading_path, current_content,
                   current_level, start_offset, in_code_block>>

\* markdown.rs 48-55: Event::Text(text)
TextEvent ==
    /\ AtEvent({"Text"})
    /\ current_heading_path' =
           IF current_level > 0 /\ Len(current_heading_path) < current_level
           THEN Append(current_heading_path, ThisEvent.text)
           ELSE current_heading_path
    /\ current_content' = current_content \o ThisEvent.text \o <<" ">>
    /\ UNCHANGED <<parsed_sections, current_level, start_offset, in_code_block>>

\* markdown.rs 56-61: Event::Code(code)
CodeEvent ==
    /\ AtEvent({"Code"})
    /\ current_content' = current_content \o <<Backquote>> \o ThisEvent.text \o <<Backquote, " ">>
    /\ UNCHANGED <<parsed_sections, current_heading_path, current_level,
                   start_offset, in_code_block>>

\* markdown.rs 62-69: Event::Start(Tag::CodeBlock(_)) / Event::End(Tag::CodeBlock(_))
CodeBlockEvent ==
    /\ AtEvent({"StartCodeBlock", "EndCodeBlock"})
    /\ in_code_block' = (ThisEvent.kind = "StartCodeBlock")
    /\ current_content' = current_content \o <<Backquote, Backquote, Backquote, "\n">>
    /\ UNCHANGED <<parsed_sections, current_heading_path, current_level, start_offset>>

\* markdown.rs 70-76: Event::SoftBreak | Event::HardBreak
BreakEvent ==
    /\ AtEvent({"SoftBreak"})
    /\ current_content' = current_content \o (IF ~in_code_block THEN <<" ">> ELSE <<"\n">>)
    /\ UNCHANGED <<parsed_sections, current_heading_path, current_level,
                   start_offset, in_code_block>>

\* markdown.rs 77: every other event
IgnoredEvent ==
    /\ AtEvent({"Other"})
    /\ UNCHANGED <<parsed_sections, current_heading_path, current_content,
                   current_level, start_offset, in_code_block>>

\* markdown.rs 81-92: the final section and the return
ParseReturn ==
    /\ mpc = "for"
    /\ event_no > Len(md_events)
    /\ parsed_sections' = SaveSection(content_len)
    /\ mpc' = "done"
    /\ UNCHANGED <<md_events, content_len, event_no, current_heading_path,
                   current_content, current_level, start_offset, in_code_block>>
    /\ UNCHANGED <<chunk_vars, rerank_vars, proc_vars, ingest_vars, cos_vars>>

InitParse == ParseEntry /\ ChunkIdle /\ RerankIdle /\ ProcIdle /\ IngestIdle /\ CosIdle

NextParse ==
    \/ HeadingStart
    \/ HeadingEnd
    \/ TextEvent
    \/ CodeEvent
    \/ CodeBlockEvent
    \/ BreakEvent
    \/ IgnoredEvent
    \/ ParseReturn

SpecParse == InitParse /\ [][NextParse]_vars

----------------------------------------------------------------------------
(* parse_markdown: claims *)

\* C13: every section that parse_markdown has emitted has a heading_path of
\* exactly `level` entries (none for a level-0 section).
C13_PathLength ==
    \A i \in 1..Len(parsed_sections) :
        Len(parsed_sections[i].heading_path) = parsed_sections[i].level

----------------------------------------------------------------------------
(* handle_ingest (handlers/ingest.rs 15-131) over the database, and        *)
(* get_embeddings (services/embedding.rs 23-55) over the embedding         *)
(* provider.  Requests are handled one at a time.  The database and the    *)
(* provider are the environment: every query can fail, the provider can    *)
(* fail or answer with any number of vectors.                              *)

\* Most chunks of a file
MaxFileChunks == 2

\* The files: a file is told by the number of chunks that parse_markdown and
\* chunk_sections (500, 50) make of it; FileChunks are their contents
Files == 0..MaxFileChunks

FileChunks(data) == [i \in 1..data |-> <<"chunk", data, i>>]

\* ingest.rs 44-46: the hex SHA-256 of the bytes; different files of the model
\* have different digests
Sha256Hex(data) == <<"sha256", data>>

\* The vector the provider has for a text, and a vector it has for no text
EmbeddingOf(text) == <<"embedding", text>>

SpareVector == <<"embedding", "spare">>

\* The `data` of a provider response with k vectors to a request for texts
ProviderData(texts, k) ==
    [i \in 1..k |-> IF i <= Len(texts) THEN EmbeddingOf(texts[i]) ELSE SpareVector]

\* Uuid of a new row: the model numbers the rows
NewDocumentId == Len(documents) + 1

DocumentRow(id, uri, sha256) ==
    [id |-> id, source_type |-> "md", source_uri |-> uri, content_sha256 |-> sha256]

ChunkRow(document_id, chunk, embedding) ==
    [document_id |-> document_id, content |-> chunk, embedding |-> embedding]

\* A variant of ChunkCount that counts the chunks of all documents
ChunkCount_all(document_id) == Len(db_chunks)

\* SELECT COUNT(*) FROM chunks WHERE document_id = $1
ChunkCount(document_id) ==
    Cardinality({i \in 1..Len(db_chunks) : db_chunks[i].document_id = document_id})

IngestOk(document_id, chunk_count) ==
    [status |-> "OK", document_id |-> document_id, chunks_count |-> chunk_count,
     tokens_estimate |-> chunk_count * 400]

IngestError(status) == [status |-> status]

\* The handler ends with an error status; the locals stay as they were
Fail(status) ==
    /\ response' = IngestError(status)
    /\ ipc' = "responded"

IngestLocals == <<file_data, filename, existing, doc, ing_chunks, embeddings, chunk_no>>

\* The service before the first request
IngestStart ==
    /\ documents = <<>>
    /\ db_chunks = <<>>
    /\ file_data = None
    /\ filename = None
    /\ existing = None
    /\ doc = None
    /\ ing_chunks = <<>>
    /\ embeddings = None
    /\ chunk_no = 0
    /\ response = [status |-> "none"]
    /\ ipc = "ready"

\* ingest.rs 19-46: a request arrives; its multipart fields are read; a
\* request without the file or without its name is a BAD_REQUEST
IngestReceive ==
    /\ ipc \in {"ready", "responded"}
    /\ \E data \in {None} \cup {Some(f) : f \in Files},
          name \in {None, Some("a.md")} :
           /\ file_data' = data
           /\ filename' = name
           /\ IF data = None \/ name = None
              THEN Fail("BAD_REQUEST")
              ELSE /\ ipc' = "select"
                   /\ response' = [status |-> "none"]
    /\ existing' = None
    /\ doc' = None
    /\ ing_chunks' = <<>>
    /\ embeddings' = None
    /\ chunk_no' = 0
    /\ UNCHANGED <<documents, db_chunks>>
    /\ UNCHANGED <<chunk_vars, rerank_vars, proc_vars, parse_vars, cos_vars>>

\* ingest.rs 48-59: SELECT * FROM documents WHERE content_sha256 = $1
IngestSelect ==
    /\ ipc = "select"
    /\ LET found == {i \in 1..Len(documents) :
                        documents[i].content_sha256 = Sha256Hex(file_data[1])}
       IN  \/ /\ Fail("INTERNAL_SERVER_ERROR")
              /\ UNCHANGED existing
           \/ /\ found = {}
              /\ existing' = None
              /\ ipc' = "insert"
              /\ UNCHANGED response
           \/ \E i \in found :
                  /\ existing' = Some(documents[i])
                  /\ ipc' = "count"
                  /\ UNCHANGED response
    /\ UNCHANGED <<documents, db_chunks, file_data, filename, doc, ing_chunks,
                   embeddings, chunk_no>>
    /\ UNCHANGED <<chunk_vars, rerank_vars, proc_vars, parse_vars, cos_vars>>

\* ingest.rs 61-85: INSERT INTO documents ... RETURNING *, then the file is
\* parsed and chunked
IngestInsertDocument ==
    /\ ipc = "insert"
    /\ \/ /\ Fail("INTERNAL_SERVER_ERROR")
          /\ UNCHANGED <<documents, doc, ing_chunks>>
       \/ LET row == DocumentRow(NewDocumentId, <<"storage://", filename[1]>>,
                                 Sha256Hex(file_data[1]))
          IN  /\ documents' = Append(documents, row)
              /\ doc' = Some(row)
              /\ ing_chunks' = FileChunks(file_data[1])
              /\ ipc' = "embed"
              /\ UNCHANGED response
    /\ UNCHANGED <<db_chunks, file_data, filename, existing, embeddings, chunk_no>>
    /\ UNCHANGED <<chunk_vars, rerank_vars, proc_vars, parse_vars, cos_vars>>

\* ingest.rs 88-90 and embedding.rs 23-55: get_embeddings fails (no API key,
\* no answer, an answer that is no EmbeddingResponse), or returns the vectors
\* of the answer, however many; without texts no request is sent
IngestEmbed ==
    /\ ipc = "embed"
    /\ \/ /\ Fail("INTERNAL_SERVER_ERROR")
          /\ UNCHANGED <<embeddings, chunk_no>>
       \/ \E k \in 0..(Len(ing_chunks) + 1) :
              /\ ing_chunks = <<>> => k = 0
              /\ embeddings' = Some(ProviderData(ing_chunks, k))
              /\ chunk_no' = 1
              /\ ipc' = "chunks"
              /\ UNCHANGED response
    /\ UNCHANGED <<documents, db_chunks, file_data, filename, existing, doc, ing_chunks>>
    /\ UNCHANGED <<chunk_vars, rerank_vars, proc_vars, parse_vars, cos_vars>>

\* ingest.rs 93-110: one INSERT INTO chunks of the loop over
\* chunks.iter().zip(embeddings.iter())
IngestInsertChunk ==
    /\ ipc = "chunks"
    /\ chunk_no <= Min(Len(ing_chunks), Len(embeddings[1]))
    /\ \/ /\ Fail("INTERNAL_SERVER_ERROR")
          /\ UNCHANGED <<db_chunks, chunk_no>>
       \/ /\ db_chunks' = Append(db_chunks,
                                 ChunkRow(doc[1].id, ing_chunks[chunk_no],
                                          embeddings[1][chunk_no]))
          /\ chunk_no' = chunk_no + 1
          /\ UNCHANGED <<response, ipc>>
    /\ UNCHANGED <<documents, file_data, filename, existing, doc, ing_chunks, embeddings>>
    /\ UNCHANGED <<chunk_vars, rerank_vars, proc_vars, parse_vars, cos_vars>>

\* ingest.rs 93, 112-113: the zip is exhausted
IngestChunksDone ==
    /\ ipc = "chunks"
    /\ chunk_no > Min(Len(ing_chunks), Len(embeddings[1]))
    /\ ipc' = "count"
    /\ UNCHANGED <<documents, db_chunks, response>>
    /\ UNCHANGED IngestLocals
    /\ UNCHANGED <<chunk_vars, rerank_vars, proc_vars, parse_vars, cos_vars>>

\* ingest.rs 57-59, 113-130: document_id, SELECT COUNT(*), the response
IngestCount ==
    /\ ipc = "count"
    /\ LET document_id == IF existing # None THEN existing[1].id ELSE doc[1].id
       IN  \/ Fail("INTERNAL_SERVER_ERROR")
           \/ /\ response' = IngestOk(document_id, ChunkCount(document_id))
              /\ ipc' = "responded"
    /\ UNCHANGED <<documents, db_chunks>>
    /\ UNCHANGED IngestLocals
    /\ UNCHANGED <<chunk_vars, rerank_vars, proc_vars, parse_vars, cos_vars>>

InitIngest == IngestStart /\ ChunkIdle /\ RerankIdle /\ ProcIdle /\ ParseIdle /\ CosIdle

NextIngest ==
    \/ IngestReceive
    \/ IngestSelect
    \/ IngestInsertDocument
    \/ IngestEmbed
    \/ IngestInsertChunk
    \/ IngestChunksDone
    \/ IngestCount

SpecIngest == InitIngest /\ [][NextIngest]_vars

----------------------------------------------------------------------------
(* handle_ingest: claims *)

\* The request handled last was for a new file and the provider answered it
\* with a number of vectors that is not the number of chunks
CountMismatch ==
    /\ ipc = "responded"
    /\ embeddings # None
    /\ Len(embeddings[1]) # Len(ing_chunks)

\* C14: a request whose embedding answer has another number of vectors than
\* texts were sent ends with an error (the EmbeddingMismatch error, or the
\* error of a query that failed): it never ends OK.
C14_MismatchSurfaced ==
    CountMismatch => response.status # "OK"

----------------------------------------------------------------------------
(* chunk_sections: the chunk index *)

\* C17: the chunk_index of the chunks of a split section counts from 0 within
\* the section: the k-th chunk of the section has chunk_index k - 1, whatever
\* the sections before it produced.
C17_IndexPerSection ==
    \A i \in 1..Len(md_sections) :
        Len(TokensOf(i)) > max_tokens =>
            \A k \in 1..Len(ChunksOf(i)) :
                ChunksOf(i)[k].metadata.chunk_index = k - 1

----------------------------------------------------------------------------
(* MarkdownProcessor: the full dump *)

\* How often `needle` occurs in `hay`
Occurrences(hay, needle) ==
    Cardinality({i \in 1..(Len(hay) - Len(needle) + 1) :
                    SubSeq(hay, i, i + Len(needle) - 1) = needle})

\* The blocks of all sections fit the budget together
BudgetFitsAll ==
    SumSeq([i \in 1..Len(sections) |-> Len(FullSectionText(sections[i]))])
        <= max_context_length

\* The group of a category in the dump: nothing when no section has the
\* category, else its header and the blocks of its sections in insertion order
GroupText(cat) ==
    LET members == SelectSeq(sections, LAMBDA s : s.category = cat)
    IN  IF members = <<>> THEN <<>>
        ELSE CategoryHeader(cat)
             \o concat([i \in 1..Len(members) |-> FullSectionText(members[i])])

\* C18: with a budget that fits all blocks, get_full_context returns the
\* groups of personal, context and knowledge in this order, and the block of
\* every section the processor holds is in it exactly once (as often as the
\* processor holds sections with this very block), whatever its category.
C18_FullDump ==
    (ppc = "returned" /\ call.op = "get_full_context" /\ BudgetFitsAll) =>
        /\ Len(context) >= Len(GroupText(CatPersonal) \o GroupText(CatContext)
                               \o GroupText(CatKnowledge))
        /\ SubSeq(context, 1, Len(GroupText(CatPersonal) \o GroupText(CatContext)
                                  \o GroupText(CatKnowledge)))
               = GroupText(CatPersonal) \o GroupText(CatContext) \o GroupText(CatKnowledge)
        /\ \A i \in 1..Len(sections) :
               Occurrences(context, FullSectionText(sections[i]))
                   = Cardinality({j \in 1..Len(sections) :
                         FullSectionText(sections[j]) = FullSectionText(sections[i])})

----------------------------------------------------------------------------
(* MarkdownProcessor: the index and the section store *)

\* get_section_count (lib.rs 287-289)
get_section_count == Len(sections)

\* get_index_size (lib.rs 291-293)
get_index_size == Cardinality(DOMAIN index)

\* The words of a section, as they stand in its content and its title
SectionWords(section) ==
    split_whitespace(section.content) \o split_whitespace(section.title)

\* How many words of the section are `word` once they are normalized
WordOccurrences(section, word) ==
    Cardinality({k \in 1..Len(SectionWords(section)) :
                    normalize_word(SectionWords(section)[k]) = word})

\* The normalized words of all sections
StoredWords ==
    UNION {{normalize_word(SectionWords(sections[i])[k]) :
               k \in 1..Len(SectionWords(sections[i]))} : i \in 1..Len(sections)}

IndexConsistent ==
    /\ \A word \in DOMAIN index :
           /\ word # <<>>
           /\ Range(word) \subseteq Range(LowerCase) \cup Range(DecimalDigits)
           /\ index[word] # <<>>
           /\ \A k \in 1..Len(index[word]) : index[word][k] \in 0..(Len(sections) - 1)
    /\ StoredWords \ {<<>>} \subseteq DOMAIN index
    /\ \A word \in DOMAIN index, i \in 1..Len(sections) :
           Cardinality({k \in 1..Len(index[word]) : index[word][k] = i - 1})
               = WordOccurrences(sections[i], word)

\* C19: in every state of the processor the index keys are non-empty words
\* of lowercase letters and digits, every posting is the position of a section
\* of the store, and a word has as many postings to a section as the section's
\* content and title have occurrences of it; and a clear leaves the store and
\* the index empty (get_section_count and get_index_size are 0).
C19_IndexConsistent ==
    /\ []IndexConsistent
    /\ [][Clear => (get_section_count' = 0 /\ get_index_size' = 0)]_vars

\* Two sections that share a word, with three postings of it each
C19_Witness ==
    /\ Len(sections) = 2
    /\ \E word \in DOMAIN index :
           /\ Len(index[word]) = 6
           /\ WordOccurrences(sections[1], word) = 3
           /\ WordOccurrences(sections[2], word) = 3


\* No two rows of `documents` have the same content hash
DistinctHashes ==
    \A i, j \in 1..Len(documents) :
        documents[i].content_sha256 = documents[j].content_sha256 => i = j

\* The file of the request is stored: a row has its hash
Stored == \E i \in 1..Len(documents) :
              documents[i].content_sha256 = Sha256Hex(file_data[1])

\* The rows of `chunks` that belong to the document
RowsOf(id) == {i \in 1..Len(db_chunks) : db_chunks[i].document_id = id}

\* C20: a request for a file whose hash a stored document has takes that
\* document (it never gets to the INSERT), changes neither table, and when it
\* ends OK it returns the id of that document and the number of chunks the
\* document has; and no two stored documents ever share a content hash.
C20_Idempotent ==
    /\ [](/\ DistinctHashes
          /\ ipc = "insert" => ~Stored
          /\ (ipc = "responded" /\ existing # None) =>
                 /\ existing[1].content_sha256 = Sha256Hex(file_data[1])
                 /\ response.status = "OK" =>
                        /\ response.document_id = existing[1].id
                        /\ response.chunks_count = Cardinality(RowsOf(existing[1].id)))
    /\ [][(ipc = "select" /\ Stored) =>
              (existing' # None \/ response'.status = "INTERNAL_SERVER_ERROR")]_vars
    /\ [][existing # None => UNCHANGED <<documents, db_chunks>>]_vars

\* A file of two chunks was ingested again while another document is stored:
\* the response has the first document's id and its two chunks
C20_Witness ==
    /\ ipc = "responded"
    /\ existing # None
    /\ response.status = "OK"
    /\ response.chunks_count = 2
    /\ Len(documents) = 2
    /\ Len(db_chunks) > 2


\* The request failed after its document row was inserted: the embedding
\* request failed (no vectors were received), or a chunk insert did (the loop
\* over the chunks and the vectors had not come to its end)
FailedAfterInsert ==
    /\ ipc = "responded"
    /\ response.status = "INTERNAL_SERVER_ERROR"
    /\ doc # None
    /\ \/ embeddings = None
       \/ chunk_no <= Min(Len(ing_chunks), Len(embeddings[1]))

\* C21: an ingest is all-or-nothing with respect to a failure: after a request
\* that failed at the embedding request or at a chunk insert, no document row
\* with the hash of its file remains (a later ingest of the file would take
\* that row and skip the chunking); and a request that ends OK for a file ends
\* with all the chunks of the file stored for the document it returns.
C21_AllOrNothing ==
    /\ FailedAfterInsert => ~Stored
    /\ (ipc = "responded" /\ response.status = "OK") =>
           Cardinality(RowsOf(response.document_id)) = Len(FileChunks(file_data[1]))

=============================================================================
